---- MODULE Spec2Model ----
(***************************************************************************)
(* photon-docker: the resumable, space-aware index download pipeline.      *)
(*                                                                         *)
(* src/src/downloader.py  download_file and its helpers, the checkpoint    *)
(*                        (".download_state") persistence, the disk budget, *)
(*                        parallel_update / sequential_update               *)
(* src/src/entrypoint.py  main                                              *)
(* src/src/utils/config.py the configuration read from the environment      *)
(*                                                                         *)
(* Sizes are counted in abstract byte units: chunk_size and save_interval  *)
(* are the program's constants scaled down to that unit.                   *)
(*                                                                         *)
(* Two specifications share the variables:                                 *)
(*   Spec    one or more invocations of main on the same disk, each of     *)
(*           which may be terminated externally;                           *)
(*   SpecDL  one call of download_file(url, destination) started on an     *)
(*           arbitrary staging disk (any partial file, any state file);    *)
(*   SpecBudget  calls of check_disk_space_requirements(download_size,      *)
(*           is_parallel) on file systems that report any free space.      *)
(***************************************************************************)
EXTENDS Integers, Sequences, FiniteSets, TLC

\* ------------------------------------------------------------------ bounds
\* Largest size of the remote archive.
MaxSize == 3
\* Largest size of a file found on disk when download_file is entered (SpecDL).
MaxFile == 2
\* Largest DOWNLOAD_MAX_RETRIES the environment sets: for a call of
\* download_file on its own (SpecDL), and for the invocations of main (Spec).
MaxRetries == 3
MaxRetriesRun == 1
\* Largest number of invocations of main on the same disk (Spec).
MaxRuns == 2
\* Largest free space a file system reports.
MaxSpace == 6
\* Largest number of local faults (a state file that cannot be written or
\* removed, a destination that cannot be opened, written or removed, a size
\* header that cannot be parsed) within one call of download_file: in SpecDL,
\* and in the calls the update workflow makes (Spec).
MaxFaults == 2
MaxFaultsRun == 0

\* ------------------------------------------------------- program constants
\* _download_content: chunk_size = 8192 (scaled): the largest chunk
\* iter_content yields.
chunk_size == 2
\* _download_content: save_interval = 1024 * 1024 (scaled).
save_interval == 2
\* entrypoint.main: sys.exit(75) on InsufficientSpaceError.
EXIT_INSUFFICIENT_SPACE == 75
\* parallel_update / sequential_update: sys.exit(1) on any Exception.
EXIT_FAILURE == 1

\* ------------------------------------------------------------------- disk
\* os.path.exists(destination) is false.
NoFile == -1

\* The state file does not exist (and load_download_state's empty dict {}).
NoState == [kind |-> "none"]
\* The state file exists and json.load raises on it.
CorruptState == [kind |-> "corrupt"]

\* The dict save_download_state dumps (the destination field is the file's
\* own path and is never read back).
StateRecord(url, downloaded_bytes, total_size, file_size) ==
    [kind |-> "state", url |-> url, downloaded_bytes |-> downloaded_bytes,
     total_size |-> total_size, file_size |-> file_size]

\* download_index / download_md5: the two destinations in TEMP_DIR.
Dests == {"photon-db-latest.tar.bz2", "photon-db-latest.tar.bz2.md5"}
INDEX_FILE == "photon-db-latest.tar.bz2"
MD5_FILE == "photon-db-latest.tar.bz2.md5"

\* get_download_url() and download_md5's url; OTHER_URL is any other url a
\* state file found on disk may name.
INDEX_URL == "index_url"
MD5_URL == "md5_url"
OTHER_URL == "other_url"

\* Outcomes of writing the state file: written; open() raised and the file is
\* as it was; open() created/truncated it and json.dump raised.
SaveOutcomes == {"ok", "open_failed", "dump_failed"}
Cost(outcome) == IF outcome = "ok" THEN 0 ELSE 1

\* ----------------------------------------------------------- persistence
\* save_download_state: the state file after the call. file is the
\* destination's size on disk (NoFile if absent), old the state file before.
save_download_state(old, file, url, downloaded_bytes, total_size, outcome) ==
    CASE outcome = "ok" ->
           StateRecord(url, downloaded_bytes, total_size,
                       IF file # NoFile THEN file ELSE 0)
      [] outcome = "dump_failed" -> CorruptState
      [] OTHER -> old

\* cleanup_download_state: the state file after the call; removed = FALSE is
\* os.remove raising (logged only).
cleanup_download_state(old, removed) ==
    IF old.kind # "none" /\ removed THEN NoState ELSE old

\* Faulty variant: the recorded downloaded_bytes is returned as it was saved
\* instead of the actual file size.
load_download_state_keep_recorded(file, sf) ==
    IF sf.kind = "none"
    THEN [state |-> NoState, cleanup |-> FALSE]
    ELSE IF sf.kind = "corrupt"
    THEN [state |-> NoState, cleanup |-> TRUE]
    ELSE IF file # NoFile
    THEN IF file >= sf.file_size
         THEN [state |-> [sf EXCEPT !.file_size = file], cleanup |-> FALSE]
         ELSE [state |-> NoState, cleanup |-> TRUE]
    ELSE [state |-> NoState, cleanup |-> FALSE]

\* Faulty variant: the actual size is compared with the recorded
\* downloaded_bytes instead of the recorded file_size.
load_download_state_by_downloaded(file, sf) ==
    IF sf.kind = "none"
    THEN [state |-> NoState, cleanup |-> FALSE]
    ELSE IF sf.kind = "corrupt"
    THEN [state |-> NoState, cleanup |-> TRUE]
    ELSE IF file # NoFile
    THEN IF file >= sf.downloaded_bytes
         THEN [state |-> [sf EXCEPT !.file_size = file, !.downloaded_bytes = file],
               cleanup |-> FALSE]
         ELSE [state |-> NoState, cleanup |-> TRUE]
    ELSE [state |-> NoState, cleanup |-> FALSE]

\* load_download_state: the returned dict and whether cleanup_download_state
\* is called.
load_download_state(file, sf) ==
    IF sf.kind = "none"
    THEN [state |-> NoState, cleanup |-> FALSE]
    ELSE IF sf.kind = "corrupt"
    THEN [state |-> NoState, cleanup |-> TRUE]
    ELSE IF file # NoFile
    THEN IF file >= sf.file_size
         THEN [state |-> [sf EXCEPT !.file_size = file, !.downloaded_bytes = file],
               cleanup |-> FALSE]
         ELSE [state |-> NoState, cleanup |-> TRUE]
    ELSE [state |-> NoState, cleanup |-> FALSE]

\* Faulty variant: the url of the loaded state is not compared.
_prepare_download_any_url(url, file, state) ==
    IF state.kind = "state"
    THEN [resume_byte_pos |-> state.downloaded_bytes,
          mode |-> IF state.downloaded_bytes > 0 /\ file # NoFile THEN "ab" ELSE "wb"]
    ELSE [resume_byte_pos |-> 0, mode |-> "wb"]

\* Faulty variant: the destination is always opened in truncate mode.
_prepare_download_always_truncate(url, file, state) ==
    IF state.kind = "state" /\ state.url = url
    THEN [resume_byte_pos |-> state.downloaded_bytes, mode |-> "wb"]
    ELSE [resume_byte_pos |-> 0, mode |-> "wb"]

\* _prepare_download: resume position and open mode from the loaded state.
_prepare_download(url, file, state) ==
    IF state.kind = "state" /\ state.url = url
    THEN [resume_byte_pos |-> state.downloaded_bytes,
          mode |-> IF state.downloaded_bytes > 0 /\ file # NoFile THEN "ab" ELSE "wb"]
    ELSE [resume_byte_pos |-> 0, mode |-> "wb"]

\* _get_download_headers: TRUE when the request carries
\* Range: bytes=<resume_byte_pos>-  (range_ok is supports_range_requests(url)).
_get_download_headers(resume_byte_pos, range_ok) ==
    resume_byte_pos > 0 /\ range_ok

\* _calculate_total_size. A response is [status, content_range, content_length]
\* with content_range the total after the "/" (0: header absent) and
\* content_length 0 when the header is absent.
_calculate_total_size(response, headers, resume_byte_pos) ==
    IF headers /\ response.status = 206
    THEN IF response.content_range # 0
         THEN response.content_range
         ELSE resume_byte_pos + response.content_length
    ELSE response.content_length

\* Faulty variant: the partial file and the append mode are kept.
_handle_no_range_support_keep(resume_byte_pos, file) ==
    [pos |-> resume_byte_pos, mode |-> "None", remove |-> FALSE]

\* _handle_no_range_support: new position, new mode (None: "keep") and whether
\* the destination is removed.
_handle_no_range_support(resume_byte_pos, file) ==
    IF resume_byte_pos > 0
    THEN [pos |-> 0, mode |-> "wb", remove |-> file # NoFile]
    ELSE [pos |-> resume_byte_pos, mode |-> "None", remove |-> FALSE]

\* ------------------------------------------------------------------ state
VARIABLES
    files,          \* TEMP_DIR: destination -> size on disk, or NoFile
    states,         \* TEMP_DIR: destination -> its ".download_state" file
    temp_dir,       \* os.path.isdir(config.TEMP_DIR)
    index_present,  \* os.path.isdir(config.OS_NODE_DIR)
    remote_size,    \* size of the archive the server holds
    cfg,            \* utils/config.py, read from the environment
    pc,             \* position of the process in main / the update workflow
    upd,            \* locals of parallel_update / sequential_update
    exit_code,      \* exit status of the process (NoExit while it runs)
    runs,           \* invocations of main so far
    steps,          \* calls the workflow has made in this invocation, in order
    dl,             \* locals of the running download_file call
    hist,           \* observations of the running download_file call
    killed,         \* the invocation before this one was terminated in the
                    \* middle of the archive transfer, after a checkpoint
    budget          \* locals of a check_disk_space_requirements call made
                    \* on its own (SpecBudget)

vars == <<files, states, temp_dir, index_present, remote_size, cfg, pc, upd,
          exit_code, runs, steps, dl, hist, killed, budget>>

disk == <<files, states, temp_dir, index_present>>
proc == <<cfg, pc, upd, exit_code, runs, steps, killed>>

\* No download_file call is running.
IdleDL ==
    [pc |-> "idle", url |-> "", dest |-> "", max_retries |-> 0, attempt |-> 0,
     resume_byte_pos |-> 0, mode |-> "wb", headers |-> FALSE, status |-> 0,
     total_size |-> 0, downloaded |-> 0, last_save |-> 0, body_left |-> 0,
     result |-> "none", waits |-> <<>>]

IdleHist ==
    [attempts |-> 0, outcomes |-> <<>>, pre_file |-> NoFile, pre_state |-> NoState,
     loaded |-> NoState, range_ok |-> "unasked", start_resume |-> 0,
     start_mode |-> "wb", written |-> 0, file_at_open |-> NoFile,
     end_state |-> NoState, last_save_ok |-> FALSE, load_cleanup |-> "none",
     end_cleanup |-> "none", faults |-> 0, budget |-> 0]

\* download_file(url, destination): line 504-505, the frame on entry.
download_file(url, destination, max_retries) ==
    [IdleDL EXCEPT !.pc = "loop", !.url = url, !.dest = destination,
                   !.max_retries = max_retries]

\* ---------------------------------------------------------- download_file
\* Faulty variant: a linear backoff.
wait_time_linear(attempt) == 2 * attempt

\* wait_time = 2 ** attempt
wait_time(attempt) == 2 ^ attempt

\* Faulty variant: every error is retried, not only a RequestException.
download_file_except_retry_all(d, kind) ==
    IF d.attempt < d.max_retries - 1
    THEN [d EXCEPT !.waits = Append(@, 2 ^ d.attempt),
                   !.attempt = @ + 1, !.pc = "loop"]
    ELSE [d EXCEPT !.result = "False", !.pc = "returned"]

\* download_file's two except clauses: RequestException ("transport") waits
\* and continues unless this was the last allowed attempt; any other
\* Exception ("other", "incomplete") returns False.
download_file_except(d, kind) ==
    IF kind = "transport"
    THEN IF d.attempt < d.max_retries - 1
         THEN [d EXCEPT !.waits = Append(@, wait_time(d.attempt)),
                        !.attempt = @ + 1, !.pc = "loop"]
         ELSE [d EXCEPT !.result = "False", !.pc = "returned"]
    ELSE [d EXCEPT !.result = "False", !.pc = "returned"]

\* n more local faults fit in the budget of this call.
CanFail(n) == hist.faults + n <= hist.budget

\* for attempt in range(max_retries): the loop is over; return False.
DL_LoopExit ==
    /\ dl.pc = "loop"
    /\ dl.attempt >= dl.max_retries
    /\ dl' = [dl EXCEPT !.result = "False", !.pc = "returned"]
    /\ UNCHANGED <<disk, remote_size, budget, proc, hist>>

\* resume_byte_pos, mode = _prepare_download(url, destination)
DL_Prepare ==
    /\ dl.pc = "loop"
    /\ dl.attempt < dl.max_retries
    /\ LET file == files[dl.dest]
           sf == states[dl.dest]
           ld == load_download_state(file, sf)
           p == _prepare_download(dl.url, file, ld.state)
       IN \E removed \in BOOLEAN :
            /\ ~removed => ld.cleanup /\ CanFail(1)
            /\ states' = [states EXCEPT ![dl.dest] =
                            IF ld.cleanup THEN cleanup_download_state(sf, removed)
                            ELSE sf]
            /\ dl' = [dl EXCEPT !.pc = "request",
                                !.resume_byte_pos = p.resume_byte_pos,
                                !.mode = p.mode, !.headers = FALSE, !.status = 0,
                                !.total_size = 0, !.downloaded = 0, !.last_save = 0,
                                !.body_left = 0]
            /\ hist' = [hist EXCEPT !.attempts = @ + 1, !.pre_file = file,
                                    !.pre_state = sf, !.loaded = ld.state,
                                    !.range_ok = "unasked",
                                    !.start_resume = p.resume_byte_pos,
                                    !.start_mode = p.mode, !.written = 0,
                                    !.file_at_open = NoFile, !.end_state = NoState,
                                    !.last_save_ok = FALSE,
                                    !.load_cleanup =
                                        IF ~ld.cleanup THEN "none"
                                        ELSE IF removed THEN "removed" ELSE "failed",
                                    !.end_cleanup = "none",
                                    !.faults = @ + (IF removed THEN 0 ELSE 1)]
    /\ UNCHANGED <<files, temp_dir, index_present, remote_size, budget, proc>>

\* The file the server holds under url: the checksum file is one unit long.
RemoteSize(url) == IF url = MD5_URL THEN 1 ELSE remote_size

\* The responses requests.get can return with a success status. A 206 is sent
\* only in answer to a Range request the server can satisfy, and carries the
\* rest of the file; a 200 carries the whole file, also in answer to a Range
\* request the server ignores. Either size header may be missing.
Responses(url, headers, resume_byte_pos) ==
    { [status |-> 200, content_range |-> 0, content_length |-> cl,
       body |-> RemoteSize(url)] : cl \in {0, RemoteSize(url)} }
    \cup
    (IF headers /\ resume_byte_pos < RemoteSize(url)
     THEN { [status |-> 206, content_range |-> cr, content_length |-> cl,
             body |-> RemoteSize(url) - resume_byte_pos] :
               cr \in {0, RemoteSize(url)},
               cl \in {0, RemoteSize(url) - resume_byte_pos} }
     ELSE {})

\* _perform_download, lines 457-473: the headers, the request, the total size
\* and the restart when no range was asked for.
DL_Request ==
    /\ dl.pc = "request"
    /\ \E range_ok \in BOOLEAN :
         LET headers == _get_download_headers(dl.resume_byte_pos, range_ok)
             asked == IF dl.resume_byte_pos > 0
                      THEN (IF range_ok THEN "yes" ELSE "no") ELSE "unasked"
             d0 == [dl EXCEPT !.headers = headers]
             h0 == [hist EXCEPT !.range_ok = asked]
         IN /\ range_ok => dl.resume_byte_pos > 0
            /\ \/ \* requests.get or raise_for_status raises a RequestException
                  /\ dl' = download_file_except(d0, "transport")
                  /\ hist' = [h0 EXCEPT !.outcomes = Append(@, "transport")]
                  /\ UNCHANGED files
               \/ \* int() raises ValueError on a malformed size header
                  /\ CanFail(1)
                  /\ dl' = download_file_except(d0, "other")
                  /\ hist' = [h0 EXCEPT !.outcomes = Append(@, "other"),
                                        !.faults = @ + 1]
                  /\ UNCHANGED files
               \/ \E response \in Responses(dl.url, headers, dl.resume_byte_pos) :
                    LET total_size == _calculate_total_size(response, headers,
                                                            dl.resume_byte_pos)
                        restart == ~headers /\ response.status # 206
                        h == _handle_no_range_support(dl.resume_byte_pos,
                                                      files[dl.dest])
                        d1 == [d0 EXCEPT !.status = response.status,
                                         !.total_size = total_size,
                                         !.body_left = response.body]
                    IN \/ /\ restart /\ h.mode # "None"
                          /\ files' = [files EXCEPT ![dl.dest] =
                                         IF h.remove THEN NoFile ELSE @]
                          /\ dl' = [d1 EXCEPT !.resume_byte_pos = h.pos,
                                              !.mode = h.mode, !.pc = "open"]
                          /\ hist' = h0
                       \/ \* os.remove(destination) raises OSError
                          /\ restart /\ h.remove
                          /\ CanFail(1)
                          /\ UNCHANGED files
                          /\ dl' = download_file_except(d1, "other")
                          /\ hist' = [h0 EXCEPT !.outcomes = Append(@, "other"),
                                                !.faults = @ + 1]
                       \/ /\ ~(restart /\ h.mode # "None")
                          /\ UNCHANGED files
                          /\ dl' = [d1 EXCEPT !.pc = "open"]
                          /\ hist' = h0
    /\ UNCHANGED <<states, temp_dir, index_present, remote_size, budget, proc>>

\* _download_content, line 398: open(destination, mode). "wb" creates or
\* truncates, "ab" creates or keeps. When open raises OSError the except clause
\* saves the state and re-raises.
DL_Open ==
    /\ dl.pc = "open"
    /\ LET d0 == [dl EXCEPT !.downloaded = dl.resume_byte_pos,
                            !.last_save = dl.resume_byte_pos]
       IN \/ /\ files' = [files EXCEPT ![dl.dest] =
                            IF dl.mode = "ab" /\ @ # NoFile THEN @ ELSE 0]
             /\ dl' = [d0 EXCEPT !.pc = "stream"]
             /\ hist' = [hist EXCEPT !.file_at_open = files'[dl.dest]]
             /\ UNCHANGED states
          \/ \E outcome \in SaveOutcomes :
             /\ CanFail(1 + Cost(outcome))
             /\ UNCHANGED files
             /\ states' = [states EXCEPT ![dl.dest] =
                             save_download_state(@, files[dl.dest], dl.url,
                                                 d0.downloaded, dl.total_size,
                                                 outcome)]
             /\ dl' = download_file_except(d0, "other")
             /\ hist' = [hist EXCEPT !.outcomes = Append(@, "other"),
                                     !.last_save_ok = (outcome = "ok"),
                                     !.faults = @ + 1 + Cost(outcome)]
    /\ UNCHANGED <<temp_dir, index_present, remote_size, budget, proc>>

\* Faulty variant: the state is saved only once more than save_interval new
\* bytes have accumulated.
DL_Chunk_save_when_exceeded ==
    /\ dl.pc = "stream"
    /\ dl.body_left > 0
    /\ \E size \in 1..chunk_size, outcome \in SaveOutcomes :
         LET downloaded == dl.downloaded + size
             save == downloaded - dl.last_save > save_interval
         IN /\ size <= dl.body_left
            /\ outcome # "ok" => save /\ CanFail(1)
            /\ files' = [files EXCEPT ![dl.dest] = @ + size]
            /\ states' = [states EXCEPT ![dl.dest] =
                            IF save
                            THEN save_download_state(@, files'[dl.dest], dl.url,
                                                     downloaded, dl.total_size,
                                                     outcome)
                            ELSE @]
            /\ dl' = [dl EXCEPT !.downloaded = downloaded,
                                !.body_left = @ - size,
                                !.last_save = IF save THEN downloaded ELSE @]
            /\ hist' = [hist EXCEPT !.written = @ + size,
                                    !.last_save_ok = IF save THEN outcome = "ok" ELSE @,
                                    !.faults = @ + Cost(outcome)]
    /\ UNCHANGED <<temp_dir, index_present, remote_size, budget, proc>>

\* _download_content, lines 399-426: one chunk is written and counted; the
\* state is saved once save_interval new bytes have accumulated.
DL_Chunk ==
    /\ dl.pc = "stream"
    /\ dl.body_left > 0
    /\ \E size \in 1..chunk_size, outcome \in SaveOutcomes :
         LET downloaded == dl.downloaded + size
             save == downloaded - dl.last_save >= save_interval
         IN /\ size <= dl.body_left
            /\ outcome # "ok" => save /\ CanFail(1)
            /\ files' = [files EXCEPT ![dl.dest] = @ + size]
            /\ states' = [states EXCEPT ![dl.dest] =
                            IF save
                            THEN save_download_state(@, files'[dl.dest], dl.url,
                                                     downloaded, dl.total_size,
                                                     outcome)
                            ELSE @]
            /\ dl' = [dl EXCEPT !.downloaded = downloaded,
                                !.body_left = @ - size,
                                !.last_save = IF save THEN downloaded ELSE @]
            /\ hist' = [hist EXCEPT !.written = @ + size,
                                    !.last_save_ok = IF save THEN outcome = "ok" ELSE @,
                                    !.faults = @ + Cost(outcome)]
    /\ UNCHANGED <<temp_dir, index_present, remote_size, budget, proc>>

\* _download_content, lines 430-432: the stream or the write raises before
\* the body is complete: iter_content a RequestException ("transport"),
\* f.write an OSError ("other"). The state is saved and the error re-raised.
DL_StreamError ==
    /\ dl.pc = "stream"
    /\ dl.body_left > 0
    /\ \E kind \in {"transport", "other"}, outcome \in SaveOutcomes :
         LET n == Cost(outcome) + (IF kind = "other" THEN 1 ELSE 0)
         IN /\ CanFail(n)
            /\ states' = [states EXCEPT ![dl.dest] =
                            save_download_state(@, files[dl.dest], dl.url,
                                                dl.downloaded, dl.total_size,
                                                outcome)]
            /\ dl' = download_file_except(dl, kind)
            /\ hist' = [hist EXCEPT !.outcomes = Append(@, kind),
                                    !.last_save_ok = (outcome = "ok"),
                                    !.faults = @ + n]
    /\ UNCHANGED <<files, temp_dir, index_present, remote_size, budget, proc>>

\* Faulty variant: the state is cleaned up before the transfer is verified.
_perform_download_finish_cleanup_first(d, sf, removed) ==
    [raise |-> d.total_size > 0 /\ d.downloaded < d.total_size,
     state |-> cleanup_download_state(sf, removed)]

\* Faulty variant: the state is not cleaned up after a verified transfer.
_perform_download_finish_no_cleanup(d, sf, removed) ==
    [raise |-> d.total_size > 0 /\ d.downloaded < d.total_size, state |-> sf]

\* _perform_download, lines 489-496, after the final save of _download_content
\* (line 428): save again, fail on a short transfer, else clean up and return
\* True. sf is the state file after the two saves, removed the outcome of
\* os.remove inside cleanup_download_state.
_perform_download_finish(d, sf, removed) ==
    IF d.total_size > 0 /\ d.downloaded < d.total_size
    THEN [raise |-> TRUE, state |-> sf]
    ELSE [raise |-> FALSE, state |-> cleanup_download_state(sf, removed)]

\* The response stream ends: with the whole body, or early when the server
\* closes the connection without an error being raised.
DL_StreamEnd ==
    /\ dl.pc = "stream"
    /\ \E o1 \in SaveOutcomes, o2 \in SaveOutcomes, removed \in BOOLEAN :
         LET s1 == save_download_state(states[dl.dest], files[dl.dest], dl.url,
                                       dl.downloaded, dl.total_size, o1)
             s2 == save_download_state(s1, files[dl.dest], dl.url,
                                       dl.downloaded, dl.total_size, o2)
             fin == _perform_download_finish(dl, s2, removed)
             n == Cost(o1) + Cost(o2) + (IF removed THEN 0 ELSE 1)
         IN /\ CanFail(n)
            /\ ~removed => ~fin.raise /\ s2.kind # "none"
            /\ states' = [states EXCEPT ![dl.dest] = fin.state]
            /\ dl' = IF fin.raise
                     THEN download_file_except(dl, "incomplete")
                     ELSE [dl EXCEPT !.result = "True", !.pc = "returned"]
            /\ hist' = [hist EXCEPT
                          !.outcomes = Append(@, IF fin.raise THEN "incomplete"
                                                 ELSE "success"),
                          !.end_state = s2, !.last_save_ok = (o2 = "ok"),
                          !.end_cleanup = IF fin.raise THEN "none"
                                          ELSE IF removed THEN "removed" ELSE "failed",
                          !.faults = @ + n]
    /\ UNCHANGED <<files, temp_dir, index_present, remote_size, budget, proc>>

DownloadStep ==
    \/ DL_LoopExit
    \/ DL_Prepare
    \/ DL_Request
    \/ DL_Open
    \/ DL_Chunk
    \/ DL_StreamError
    \/ DL_StreamEnd

\* ------------------------------------------------------------ disk budget
\* get_available_space: f_frsize * f_bavail, or 0 when os.statvfs raises
\* (statvfs = StatError).
StatError == -1

\* Variant: the failure of os.statvfs is passed on instead of read as 0.
get_available_space_unguarded(statvfs) == statvfs

get_available_space(statvfs) ==
    IF statvfs = StatError THEN 0 ELSE statvfs

\* The literal 1.63 is the double 7340867392613908 / 2^52, which is smaller
\* than 163/100 by DOUBLE_163_DEFICIT / (100 * 2^52).
DOUBLE_163_DEFICIT == 48

\* The k with 2^k < n <= 2^(k+1), for 2 <= n: the doubles just below n are
\* 2^(k-52) apart.
BinadeBelow(n) == CHOOSE k \in 0..24 : 2 ^ k < n /\ n <= 2 ^ (k + 1)

\* Variant: the estimate rounded up.
extracted_size_rounded_up(download_size) == (download_size * 163 + 99) \div 100

\* extracted_size = int(download_size * 1.63): the product of download_size
\* and the double 1.63, rounded to the nearest double, then truncated.  The
\* exact product lies below 163 * download_size / 100 by
\* download_size * DOUBLE_163_DEFICIT / (100 * 2^52); where 163 * download_size
\* / 100 is an integer n, the rounded product falls below n when that
\* distance exceeds half the spacing of the doubles below n, and int() then
\* yields n - 1.  Elsewhere the distance is far smaller than the fractional
\* part and int() yields the floor.  (Sizes below 2^23.)
extracted_size(download_size) ==
    LET floor == (download_size * 163) \div 100
    IN IF (download_size * 163) % 100 # 0 \/ download_size = 0
       THEN floor
       ELSE IF download_size * DOUBLE_163_DEFICIT > 50 * 2 ^ BinadeBelow(floor)
            THEN floor - 1
            ELSE floor

\* Variant: Parallel mode checks the data area only.
check_disk_space_requirements_data_only(download_size, is_parallel, temp_available, data_available) ==
    LET temp_needed == download_size + extracted_size(download_size)
        data_needed == extracted_size(download_size)
    IN IF is_parallel
       THEN ~(data_available < data_needed)
       ELSE ~(temp_available < temp_needed)

\* Variant: Sequential mode checks the data area as well.
check_disk_space_requirements_both_modes(download_size, is_parallel, temp_available, data_available) ==
    LET temp_needed == download_size + extracted_size(download_size)
        data_needed == extracted_size(download_size)
    IN ~(temp_available < temp_needed) /\ ~(data_available < data_needed)

\* check_disk_space_requirements(download_size, is_parallel), given what
\* get_available_space returns for the staging and the data area.  The
\* Parallel branch also computes total_needed = int(download_size * 1.7),
\* which is only logged.
check_disk_space_requirements(download_size, is_parallel, temp_available, data_available) ==
    LET compressed_size == download_size
        temp_needed == compressed_size + extracted_size(download_size)
        data_needed == extracted_size(download_size)
    IN IF is_parallel
       THEN ~(temp_available < temp_needed) /\ ~(data_available < data_needed)
       ELSE ~(temp_available < temp_needed)

\* 1024**3 bytes, in the unit the 10 GiB scenario is counted in (MiB).
GiB == 1024

\* The download sizes check_disk_space_requirements is called with: small
\* ones, multiples of 100 (where download_size * 1.63 is an integer), and 10 GiB.
DownloadSizes ==
    0..MaxSize \cup { 100 * j : j \in 1..MaxSize } \cup { 10 * GiB }

\* What os.statvfs reports for a path: f_frsize * f_bavail, or the call raises.
SpaceReadings ==
    {StatError} \cup 0..MaxSpace \cup { 5 * GiB, 20 * GiB, 25 * GiB }

\* No check_disk_space_requirements call of its own is running.
NoBudget == [pc |-> "idle", download_size |-> 0, is_parallel |-> FALSE,
             temp_statvfs |-> 0, data_statvfs |-> 0,
             temp_available |-> 0, data_available |-> 0,
             extracted_size |-> 0, result |-> FALSE, calls |-> 0,
             earlier |-> {}]

\* Line 34: temp_available = get_available_space(TEMP_DIR or DATA_DIR).
budget_temp_available ==
    /\ budget.pc = "temp_available"
    /\ \E statvfs \in SpaceReadings :
         budget' = [budget EXCEPT !.pc = "data_available",
                                  !.temp_statvfs = statvfs,
                                  !.temp_available = get_available_space(statvfs)]
    /\ UNCHANGED <<disk, remote_size, proc, dl, hist>>

\* Lines 35-37: data_available = get_available_space(PHOTON_DATA_DIR or DATA_DIR).
budget_data_available ==
    /\ budget.pc = "data_available"
    /\ \E statvfs \in SpaceReadings :
         budget' = [budget EXCEPT !.pc = "decide",
                                  !.data_statvfs = statvfs,
                                  !.data_available = get_available_space(statvfs)]
    /\ UNCHANGED <<disk, remote_size, proc, dl, hist>>

\* Lines 39-82: the sizes needed, the comparisons, the returned decision.
budget_decide ==
    /\ budget.pc = "decide"
    /\ budget' = [budget EXCEPT
            !.pc = "returned",
            !.calls = @ + 1,
            !.extracted_size = extracted_size(budget.download_size),
            !.result = check_disk_space_requirements(
                           budget.download_size, budget.is_parallel,
                           budget.temp_available, budget.data_available)]
    /\ UNCHANGED <<disk, remote_size, proc, dl, hist>>

\* The function is called once more with the same arguments; what the first
\* call read and returned is kept for comparison.
budget_again ==
    /\ budget.pc = "returned"
    /\ budget.calls = 1
    /\ budget' = [budget EXCEPT
            !.pc = "temp_available",
            !.earlier = {[temp_available |-> budget.temp_available,
                          data_available |-> budget.data_available,
                          result |-> budget.result]}]
    /\ UNCHANGED <<disk, remote_size, proc, dl, hist>>

BudgetStep ==
    \/ budget_temp_available
    \/ budget_data_available
    \/ budget_decide
    \/ budget_again

\* ------------------------------------------------------------- exceptions
\* The process has not exited.
NoExit == -1

\* isinstance(e, Exception): SystemExit derives from BaseException only.
IsException(e) == e.class \in {"InsufficientSpaceError", "Exception", "ValueError", "OSError"}

SystemExit(code) == [class |-> "SystemExit", code |-> code]
Raise(class) == [class |-> class, code |-> 0]

\* parallel_update / sequential_update, "except Exception as e: sys.exit(1)":
\* what leaves the function when e is raised inside its try block.
update_except(e) ==
    IF IsException(e) THEN SystemExit(EXIT_FAILURE) ELSE e

\* main's handlers around the update call, and the interpreter's exit status
\* for what leaves main. caller is "force" (lines 42-53) or "initial" (60-65).
main_except(caller, e) ==
    IF e.class = "InsufficientSpaceError" THEN EXIT_INSUFFICIENT_SPACE
    ELSE IF e.class = "SystemExit" THEN e.code
    ELSE 1

\* ------------------------------------------------------- update workflow
NoUpdate == [variant |-> "none", caller |-> "none", file_size |-> 0,
             space |-> "unchecked"]

\* An exception is raised inside the try block of the running update.
Fatal(e) ==
    /\ pc' = "exited"
    /\ exit_code' = main_except(upd.caller, update_except(e))

Step(name, ok) == steps' = Append(steps, [step |-> name, ok |-> ok])

\* Variant: the initial download follows UPDATE_STRATEGY.
main_initial_follows_strategy ==
    /\ pc = "main"
    /\ \/ \* validate_config raises ValueError: sys.exit(1)
          /\ pc' = "exited"
          /\ exit_code' = 1
          /\ Step("validate_config", FALSE)
          /\ UNCHANGED upd
       \/ /\ cfg.FORCE_UPDATE
          /\ Step("validate_config", TRUE)
          /\ upd' = [NoUpdate EXCEPT !.caller = "force",
                        !.variant = IF cfg.UPDATE_STRATEGY = "PARALLEL"
                                    THEN "parallel" ELSE "sequential"]
          /\ pc' = "staging"
          /\ UNCHANGED exit_code
       \/ /\ ~cfg.FORCE_UPDATE
          /\ Step("validate_config", TRUE)
          /\ ~index_present
          /\ IF ~cfg.INITIAL_DOWNLOAD
             THEN /\ pc' = "exited"
                  /\ exit_code' = 0
                  /\ UNCHANGED upd
             ELSE /\ upd' = [NoUpdate EXCEPT !.caller = "initial",
                        !.variant = IF cfg.UPDATE_STRATEGY = "PARALLEL"
                                    THEN "parallel" ELSE "sequential"]
                  /\ pc' = "staging"
                  /\ UNCHANGED exit_code
       \/ /\ ~cfg.FORCE_UPDATE
          /\ Step("validate_config", TRUE)
          /\ index_present
          /\ pc' = "exited"
          /\ exit_code' = 0
          /\ UNCHANGED upd
    /\ UNCHANGED <<disk, remote_size, budget, cfg, runs, killed, dl, hist>>

\* main, lines 34-67: validate the configuration and choose the update.
main ==
    /\ pc = "main"
    /\ \/ \* validate_config raises ValueError: sys.exit(1)
          /\ pc' = "exited"
          /\ exit_code' = 1
          /\ Step("validate_config", FALSE)
          /\ UNCHANGED upd
       \/ /\ cfg.FORCE_UPDATE
          /\ Step("validate_config", TRUE)
          /\ upd' = [NoUpdate EXCEPT !.caller = "force",
                        !.variant = IF cfg.UPDATE_STRATEGY = "PARALLEL"
                                    THEN "parallel" ELSE "sequential"]
          /\ pc' = "staging"
          /\ UNCHANGED exit_code
       \/ /\ ~cfg.FORCE_UPDATE
          /\ Step("validate_config", TRUE)
          /\ ~index_present
          /\ IF ~cfg.INITIAL_DOWNLOAD
             THEN /\ pc' = "exited"
                  /\ exit_code' = 0
                  /\ UNCHANGED upd
             ELSE /\ upd' = [NoUpdate EXCEPT !.caller = "initial",
                                             !.variant = "sequential"]
                  /\ pc' = "staging"
                  /\ UNCHANGED exit_code
       \/ /\ ~cfg.FORCE_UPDATE
          /\ Step("validate_config", TRUE)
          /\ index_present
          /\ pc' = "exited"
          /\ exit_code' = 0
          /\ UNCHANGED upd
    /\ UNCHANGED <<disk, remote_size, budget, cfg, runs, killed, dl, hist>>

\* Variant: a failure to remove TEMP_DIR is logged and the update goes on.
update_staging_ignore_failure ==
    /\ pc = "staging"
    /\ \/ \* shutil.rmtree (if the directory exists) and os.makedirs succeed
          /\ temp_dir' = TRUE
          /\ files' = [d \in Dests |-> NoFile]
          /\ states' = [d \in Dests |-> NoState]
          /\ pc' = "probe"
          /\ Step("staging", TRUE)
          /\ UNCHANGED exit_code
       \/ \* shutil.rmtree raises, and the handler re-raises
          /\ temp_dir
          /\ pc' = "probe"
          /\ Step("staging", FALSE)
          /\ UNCHANGED <<files, states, temp_dir, exit_code>>
       \/ \* os.makedirs raises
          /\ ~temp_dir
          /\ Fatal(Raise("OSError"))
          /\ Step("staging", FALSE)
          /\ UNCHANGED <<files, states, temp_dir>>
    /\ UNCHANGED <<index_present, remote_size, budget, cfg, upd, runs, killed, dl, hist>>

\* Lines 182-192 / 236-246: remove TEMP_DIR if it is there, and create it.
update_staging ==
    /\ pc = "staging"
    /\ \/ \* shutil.rmtree (if the directory exists) and os.makedirs succeed
          /\ temp_dir' = TRUE
          /\ files' = [d \in Dests |-> NoFile]
          /\ states' = [d \in Dests |-> NoState]
          /\ pc' = "probe"
          /\ Step("staging", TRUE)
          /\ UNCHANGED exit_code
       \/ \* shutil.rmtree raises, and the handler re-raises
          /\ temp_dir
          /\ Fatal(Raise("OSError"))
          /\ Step("staging", FALSE)
          /\ UNCHANGED <<files, states, temp_dir>>
       \/ \* os.makedirs raises
          /\ ~temp_dir
          /\ Fatal(Raise("OSError"))
          /\ Step("staging", FALSE)
          /\ UNCHANGED <<files, states, temp_dir>>
    /\ UNCHANGED <<index_present, remote_size, budget, cfg, upd, runs, killed, dl, hist>>

\* Variant: the answer of the disk budget is logged and the update goes on.
update_probe_ignore_budget ==
    /\ pc = "probe"
    /\ \/ \* get_download_url raises ValueError (unknown region)
          /\ Fatal(Raise("ValueError"))
          /\ Step("get_download_url", FALSE)
          /\ UNCHANGED upd
       \/ \* get_remote_file_size returns 0: no space check
          /\ upd' = [upd EXCEPT !.file_size = 0]
          /\ pc' = "download_index"
          /\ Step("get_remote_file_size", TRUE)
          /\ UNCHANGED exit_code
       \/ \E st \in {StatError} \cup 0..MaxSpace, sd \in {StatError} \cup 0..MaxSpace :
            LET file_size == remote_size
                allowed == check_disk_space_requirements(
                               file_size, upd.variant = "parallel",
                               get_available_space(st), get_available_space(sd))
            IN /\ file_size > 0
               /\ upd' = [upd EXCEPT !.file_size = file_size,
                                     !.space = IF allowed THEN "sufficient"
                                               ELSE "insufficient"]
               /\ Step("check_disk_space_requirements", allowed)
               /\ pc' = "download_index"
               /\ UNCHANGED exit_code
    /\ UNCHANGED <<disk, remote_size, budget, cfg, runs, killed, dl, hist>>

\* Lines 194-202 / 248-256: resolve the url, probe the remote size and, when
\* it is known, check the disk budget.
update_probe ==
    /\ pc = "probe"
    /\ \/ \* get_download_url raises ValueError (unknown region)
          /\ Fatal(Raise("ValueError"))
          /\ Step("get_download_url", FALSE)
          /\ UNCHANGED upd
       \/ \* get_remote_file_size returns 0: no space check
          /\ upd' = [upd EXCEPT !.file_size = 0]
          /\ pc' = "download_index"
          /\ Step("get_remote_file_size", TRUE)
          /\ UNCHANGED exit_code
       \/ \E st \in {StatError} \cup 0..MaxSpace, sd \in {StatError} \cup 0..MaxSpace :
            LET file_size == remote_size
                allowed == check_disk_space_requirements(
                               file_size, upd.variant = "parallel",
                               get_available_space(st), get_available_space(sd))
            IN /\ file_size > 0
               /\ upd' = [upd EXCEPT !.file_size = file_size,
                                     !.space = IF allowed THEN "sufficient"
                                               ELSE "insufficient"]
               /\ Step("check_disk_space_requirements", allowed)
               /\ IF allowed
                  THEN pc' = "download_index" /\ UNCHANGED exit_code
                  ELSE Fatal(Raise("InsufficientSpaceError"))
    /\ UNCHANGED <<disk, remote_size, budget, cfg, runs, killed, dl, hist>>

\* download_index / download_md5 call download_file.
CallDownload(at, url, destination) ==
    /\ pc = at
    /\ dl.pc = "idle"
    /\ dl' = download_file(url, destination, cfg.DOWNLOAD_MAX_RETRIES)
    /\ hist' = [IdleHist EXCEPT !.budget = MaxFaultsRun]
    /\ pc' = "in_" \o at
    /\ UNCHANGED <<disk, remote_size, budget, cfg, upd, exit_code, runs, killed, steps>>

\* download_file has returned: False raises Exception("Failed to download").
ReturnDownload(at, next) ==
    /\ pc = "in_" \o at
    /\ dl.pc = "returned"
    /\ dl' = IdleDL
    /\ hist' = IdleHist
    /\ Step(at, dl.result = "True")
    /\ IF dl.result = "True"
       THEN pc' = next /\ UNCHANGED exit_code
       ELSE Fatal(Raise("Exception"))
    /\ UNCHANGED <<disk, remote_size, budget, cfg, upd, runs, killed>>

\* Variant: what a collaborator raises is swallowed and the update goes on.
Collaborator_ignore_failure(at, next) ==
    /\ pc = at
    /\ pc' = next
    /\ \E ok \in BOOLEAN : Step(at, ok)
    /\ UNCHANGED exit_code

\* A call to a collaborator of src.filesystem that returns or raises.
Collaborator(at, next) ==
    /\ pc = at
    /\ \/ /\ pc' = next
          /\ Step(at, TRUE)
          /\ UNCHANGED exit_code
       \/ /\ Fatal(Raise("Exception"))
          /\ Step(at, FALSE)

\* index_file = download_index()
download_index_call == CallDownload("download_index", INDEX_URL, INDEX_FILE)
download_index_return == ReturnDownload("download_index", "extract_index")

\* Variant: SKIP_MD5_CHECK is not consulted.
extract_index_ignore_skip ==
    /\ Collaborator("extract_index", "download_md5")
    /\ UNCHANGED <<disk, remote_size, budget, cfg, upd, runs, killed, dl, hist>>

\* extract_index(index_file), then "if not config.SKIP_MD5_CHECK"
extract_index ==
    /\ Collaborator("extract_index",
                    IF cfg.SKIP_MD5_CHECK THEN "move_index" ELSE "download_md5")
    /\ UNCHANGED <<disk, remote_size, budget, cfg, upd, runs, killed, dl, hist>>

\* md5_file = download_md5()
download_md5_call == CallDownload("download_md5", MD5_URL, MD5_FILE)
download_md5_return == ReturnDownload("download_md5", "verify_checksum")

\* src.filesystem.verify_checksum, by its contract in the design:
\* verify(checksumFile, archiveFile) -> pass/fail, a mismatch being fatal: a
\* pass returns to the caller and a fail is raised to it.
verify(md5_matches) == IF md5_matches THEN "returns" ELSE "raises"

\* verify_checksum(md5_file, index_file): the returned value is not looked at.
verify_checksum ==
    /\ pc = "verify_checksum"
    /\ \E md5_matches \in BOOLEAN :
         IF verify(md5_matches) = "returns"
         THEN /\ pc' = "move_index"
              /\ Step("verify_checksum", TRUE)
              /\ UNCHANGED exit_code
         ELSE /\ Fatal(Raise("Exception"))
              /\ Step("verify_checksum", FALSE)
    /\ UNCHANGED <<disk, remote_size, budget, cfg, upd, runs, killed, dl, hist>>

\* move_index()
move_index ==
    /\ Collaborator("move_index", "clear_temp_dir")
    /\ index_present' = (index_present \/ pc' = "clear_temp_dir")
    /\ UNCHANGED <<files, states, temp_dir, remote_size, budget, cfg, upd, runs, killed, dl, hist>>

\* clear_temp_dir(), after which the update returns and main ends.
clear_temp_dir ==
    /\ pc = "clear_temp_dir"
    /\ \/ /\ files' = [d \in Dests |-> NoFile]
          /\ states' = [d \in Dests |-> NoState]
          /\ pc' = "exited"
          /\ exit_code' = 0
          /\ Step("clear_temp_dir", TRUE)
       \/ /\ Fatal(Raise("Exception"))
          /\ Step("clear_temp_dir", FALSE)
          /\ UNCHANGED <<files, states>>
    /\ UNCHANGED <<temp_dir, index_present, remote_size, budget, cfg, upd, runs, killed, dl, hist>>

\* The process is terminated from outside while it runs: its locals are lost,
\* the disk stays as it is.
Terminate ==
    /\ pc \notin {"exited", "killed"}
    /\ pc' = "killed"
    /\ upd' = NoUpdate
    /\ steps' = <<>>
    /\ dl' = IdleDL
    /\ hist' = IdleHist
    /\ killed' = (/\ dl.pc = "stream"
                   /\ dl.dest = INDEX_FILE
                   /\ states[dl.dest].kind = "state"
                   /\ states[dl.dest].downloaded_bytes > 0
                   /\ files[dl.dest] > 0)
    /\ UNCHANGED <<disk, remote_size, budget, cfg, exit_code, runs>>

\* The container starts the entrypoint again on the same disk.
Restart ==
    /\ pc \in {"exited", "killed"}
    /\ runs < MaxRuns
    /\ pc' = "main"
    /\ upd' = NoUpdate
    /\ exit_code' = NoExit
    /\ runs' = runs + 1
    /\ steps' = <<>>
    /\ killed' = (killed /\ pc = "killed")
    /\ UNCHANGED <<disk, remote_size, budget, cfg, dl, hist>>

WorkflowStep ==
    \/ main
    \/ update_staging
    \/ update_probe
    \/ download_index_call
    \/ download_index_return
    \/ extract_index
    \/ download_md5_call
    \/ download_md5_return
    \/ verify_checksum
    \/ move_index
    \/ clear_temp_dir

\* -------------------------------------------------------------------- Spec
\* The first invocation of main: no staging directory, an index or none.
Init ==
    /\ files = [d \in Dests |-> NoFile]
    /\ states = [d \in Dests |-> NoState]
    /\ temp_dir = FALSE
    /\ index_present \in BOOLEAN
    /\ remote_size \in 1..MaxSize
    /\ cfg \in [FORCE_UPDATE : BOOLEAN, UPDATE_STRATEGY : {"PARALLEL", "SEQUENTIAL"},
                SKIP_MD5_CHECK : BOOLEAN, INITIAL_DOWNLOAD : BOOLEAN,
                DOWNLOAD_MAX_RETRIES : 0..MaxRetriesRun]
    /\ pc = "main"
    /\ upd = NoUpdate
    /\ exit_code = NoExit
    /\ runs = 1
    /\ steps = <<>>
    /\ dl = IdleDL
    /\ hist = IdleHist
    /\ killed = FALSE
    /\ budget = NoBudget

Next ==
    \/ WorkflowStep
    \/ DownloadStep
    \/ Terminate
    \/ Restart

Spec == Init /\ [][Next]_vars

\* ------------------------------------------------------------------ SpecDL
\* The state files that may lie next to a destination.
StateFiles ==
    {NoState, CorruptState} \cup
    { StateRecord(u, m, t, f) : u \in {INDEX_URL, OTHER_URL}, m \in 0..MaxFile,
                                t \in {0}, f \in 0..MaxFile }

\* download_file(INDEX_URL, INDEX_FILE) is called on a staging directory that
\* holds any partial file and any state file.
InitDL ==
    /\ \E n \in {NoFile} \cup 0..MaxFile, sf \in StateFiles :
         /\ files = [d \in Dests |-> IF d = INDEX_FILE THEN n ELSE NoFile]
         /\ states = [d \in Dests |-> IF d = INDEX_FILE THEN sf ELSE NoState]
    /\ temp_dir = TRUE
    /\ index_present = FALSE
    /\ remote_size \in 1..MaxSize
    /\ \E r \in 0..MaxRetries :
         /\ cfg = [FORCE_UPDATE |-> FALSE, UPDATE_STRATEGY |-> "SEQUENTIAL",
                   SKIP_MD5_CHECK |-> FALSE, INITIAL_DOWNLOAD |-> TRUE,
                   DOWNLOAD_MAX_RETRIES |-> r]
         /\ dl = download_file(INDEX_URL, INDEX_FILE, r)
    /\ pc = "download_file"
    /\ upd = NoUpdate
    /\ exit_code = NoExit
    /\ runs = 1
    /\ steps = <<>>
    /\ hist = [IdleHist EXCEPT !.budget = MaxFaults]
    /\ killed = FALSE
    /\ budget = NoBudget

NextDL == DownloadStep

SpecDL == InitDL /\ [][NextDL]_vars

\* -------------------------------------------------------------- SpecBudget
\* check_disk_space_requirements(download_size, is_parallel) is entered with
\* any download size, in either mode.
InitBudget ==
    /\ files = [d \in Dests |-> NoFile]
    /\ states = [d \in Dests |-> NoState]
    /\ temp_dir = TRUE
    /\ index_present = FALSE
    /\ \E download_size \in DownloadSizes, is_parallel \in BOOLEAN :
         /\ remote_size = download_size
         /\ budget = [NoBudget EXCEPT !.pc = "temp_available",
                                      !.download_size = download_size,
                                      !.is_parallel = is_parallel]
    /\ cfg = [FORCE_UPDATE |-> FALSE, UPDATE_STRATEGY |-> "SEQUENTIAL",
              SKIP_MD5_CHECK |-> FALSE, INITIAL_DOWNLOAD |-> TRUE,
              DOWNLOAD_MAX_RETRIES |-> 0]
    /\ pc = "check_disk_space_requirements"
    /\ upd = NoUpdate
    /\ exit_code = NoExit
    /\ runs = 1
    /\ steps = <<>>
    /\ dl = IdleDL
    /\ hist = IdleHist
    /\ killed = FALSE

NextBudget == BudgetStep

SpecBudget == InitBudget /\ [][NextBudget]_vars

\* ================================================================= claims
Last(seq) == seq[Len(seq)]

\* download_file has returned after an attempt whose response stream ended.
StreamEnded ==
    /\ dl.pc = "returned"
    /\ Len(hist.outcomes) > 0
    /\ Last(hist.outcomes) \in {"success", "incomplete"}

\* download_file has returned because the stream ended short of a known total.
ReturnedIncomplete ==
    /\ dl.pc = "returned"
    /\ Len(hist.outcomes) > 0
    /\ Last(hist.outcomes) = "incomplete"

\* C1: when the remote size is known and check_disk_space_requirements
\* returns false during an update started from main, the process exits with
\* the insufficient-space code 75 (not the generic failure code 1).
C1_InsufficientSpaceExits75 ==
    (pc = "exited" /\ upd.space = "insufficient")
        => exit_code = EXIT_INSUFFICIENT_SPACE

\* C2: when the invocation before this one was terminated in the middle of
\* the archive transfer after a checkpoint was written, the first attempt of
\* this invocation's archive download finds the partial file and its
\* checkpoint and resumes from a position greater than 0.
C2_ResumesAfterTermination ==
    (/\ killed
     /\ pc = "in_download_index"
     /\ dl.pc = "request"
     /\ hist.attempts = 1)
        => (/\ hist.pre_file # NoFile
            /\ hist.pre_state.kind = "state"
            /\ dl.resume_byte_pos > 0)

\* C3: in an attempt that starts with a resume position > 0 and for which
\* supports_range_requests returns false, the partial file is gone before the
\* destination is opened, it is opened in truncate mode, and the byte counter
\* and the file both hold exactly the bytes written by this attempt.
C3_NoRangeRestartsFromZero ==
    (hist.start_resume > 0 /\ hist.range_ok = "no") =>
        /\ dl.pc = "open" =>
              /\ files[dl.dest] = NoFile
              /\ dl.resume_byte_pos = 0
              /\ dl.mode = "wb"
        /\ dl.pc = "stream" =>
              /\ dl.mode = "wb"
              /\ hist.file_at_open = 0
              /\ dl.downloaded = hist.written
              /\ files[dl.dest] = hist.written

C3_Witness ==
    /\ hist.start_resume > 0
    /\ hist.range_ok = "no"
    /\ hist.pre_file > 0
    /\ dl.pc = "stream"
    /\ hist.written > 0

\* C4 as stated: after a stream that ends short of a known total,
\* download_file returns False and the state file exists.
C4_StateFileExistsAfterIncomplete ==
    ReturnedIncomplete =>
        /\ dl.result = "False"
        /\ states[dl.dest].kind # "none"

\* C4, amended: after a stream that ends short of a known total,
\* download_file returns False without another attempt or wait, and
\* cleanup_download_state is not called: the state file is as the final save
\* left it, and it holds the bytes written whenever that save succeeded.
C4_IncompleteKeepsCheckpoint ==
    ReturnedIncomplete =>
        /\ dl.total_size > 0
        /\ dl.downloaded < dl.total_size
        /\ dl.result = "False"
        /\ hist.attempts = Len(hist.outcomes)
        /\ Len(dl.waits) = hist.attempts - 1
        /\ states[dl.dest] = hist.end_state
        /\ hist.last_save_ok =>
              states[dl.dest] = StateRecord(dl.url, dl.downloaded, dl.total_size,
                                            files[dl.dest])

C4_Witness ==
    /\ ReturnedIncomplete
    /\ dl.downloaded > 0
    /\ hist.attempts < dl.max_retries
    /\ states[dl.dest].kind = "state"
    /\ states[dl.dest].downloaded_bytes = dl.downloaded

\* C5: a stream that ends with the bytes written equal to the known total, or
\* with the total unknown (0), makes download_file return True; and whenever
\* download_file returns True no state file is left, unless its removal failed.
C5_SuccessRemovesCheckpoint ==
    /\ (StreamEnded /\ (dl.total_size = 0 \/ dl.downloaded = dl.total_size))
          => dl.result = "True"
    /\ (dl.pc = "returned" /\ dl.result = "True" /\ hist.end_cleanup # "failed")
          => states[dl.dest].kind = "none"

C5_Witness ==
    /\ StreamEnded
    /\ dl.total_size > 0
    /\ dl.downloaded = dl.total_size
    /\ dl.result = "True"
    /\ hist.end_state.kind = "state"
    /\ states[dl.dest].kind = "none"

\* The number of attempts that failed with a transport error.
TransportFailures ==
    Cardinality({i \in 1..Len(hist.outcomes) : hist.outcomes[i] = "transport"})

\* C6: download_file makes at most max_retries attempts; the wait after the
\* i-th failed transport attempt (from 0) is 2^i seconds, every such attempt
\* but the last allowed one is followed by a wait, and nothing else is; with
\* max_retries = 3 and two transport failures followed by a success the result
\* is True after waits of 1 and 2 seconds.
C6_BoundedRetriesWithBackoff ==
    /\ hist.attempts <= dl.max_retries
    /\ \A i \in 1..Len(dl.waits) : dl.waits[i] = 2 ^ (i - 1)
    /\ Len(dl.waits) = dl.attempt
    /\ Len(dl.waits) =
          TransportFailures
          - (IF Len(hist.outcomes) > 0
                /\ Len(hist.outcomes) = dl.max_retries
                /\ Last(hist.outcomes) = "transport" THEN 1 ELSE 0)
    /\ (dl.max_retries = 3
        /\ hist.outcomes = <<"transport", "transport", "success">>)
          => (dl.pc = "returned" /\ dl.result = "True" /\ dl.waits = <<1, 2>>)

C6_Witness ==
    /\ dl.max_retries = 3
    /\ hist.outcomes = <<"transport", "transport", "success">>
    /\ dl.result = "True"
    /\ dl.waits = <<1, 2>>

\* C7: an attempt that fails with anything but a transport error is the last
\* one: download_file returns False at once, with no wait after it; and when
\* all max_retries attempts fail with a transport error download_file
\* returns False.
C7_OnlyTransportFailuresRetried ==
    /\ \A i \in 1..Len(hist.outcomes) :
          hist.outcomes[i] \in {"other", "incomplete"} =>
              /\ i = Len(hist.outcomes)
              /\ dl.pc = "returned"
              /\ dl.result = "False"
              /\ hist.attempts = i
              /\ Len(dl.waits) = i - 1
    /\ (/\ Len(hist.outcomes) > 0
        /\ Len(hist.outcomes) = dl.max_retries
        /\ \A i \in 1..Len(hist.outcomes) : hist.outcomes[i] = "transport")
          => (dl.pc = "returned" /\ dl.result = "False")

C7_Witness ==
    /\ dl.pc = "returned"
    /\ dl.max_retries = 3
    /\ hist.outcomes = <<"transport", "other">>
    /\ dl.result = "False"
    /\ dl.waits = <<1>>

\* An attempt has loaded a state file that lay next to an existing destination.
LoadedFromFile ==
    /\ hist.attempts > 0
    /\ hist.pre_file # NoFile
    /\ hist.pre_state.kind = "state"

\* C8 as stated: a saved state whose downloaded_bytes M is at most the actual
\* file size N is returned with downloaded_bytes = N.
C8_LoadByDownloadedBytes ==
    (LoadedFromFile /\ hist.pre_state.downloaded_bytes <= hist.pre_file) =>
        /\ hist.loaded.kind = "state"
        /\ hist.loaded.downloaded_bytes = hist.pre_file

\* C8, amended: a saved state whose recorded file_size F is at most the actual
\* file size N is returned with downloaded_bytes = N.
C8_LoadTrustsActualSize ==
    (LoadedFromFile /\ hist.pre_state.file_size <= hist.pre_file) =>
        /\ hist.loaded.kind = "state"
        /\ hist.loaded.downloaded_bytes = hist.pre_file
        /\ hist.loaded.url = hist.pre_state.url

C8_Witness ==
    /\ LoadedFromFile
    /\ hist.pre_state.file_size <= hist.pre_file
    /\ hist.pre_state.downloaded_bytes < hist.pre_file
    /\ hist.loaded.kind = "state"
    /\ hist.loaded.downloaded_bytes = hist.pre_file

\* C9 as stated: a saved state whose downloaded_bytes M exceeds the actual
\* file size N is discarded: the state file is deleted, the empty state is
\* returned and the attempt starts from byte 0 in truncate mode.
C9_DiscardByDownloadedBytes ==
    (LoadedFromFile /\ hist.pre_state.downloaded_bytes > hist.pre_file) =>
        /\ hist.loaded.kind = "none"
        /\ hist.start_resume = 0
        /\ hist.start_mode = "wb"
        /\ dl.pc = "request" => states[dl.dest].kind = "none"

\* C9, amended: a saved state whose recorded file_size F exceeds the actual
\* file size N is discarded: cleanup_download_state is called (the state file
\* is gone unless its removal failed), the empty state is returned and the
\* attempt starts from byte 0 in truncate mode.
C9_DiscardOverstatedState ==
    (LoadedFromFile /\ hist.pre_state.file_size > hist.pre_file) =>
        /\ hist.loaded.kind = "none"
        /\ hist.load_cleanup # "none"
        /\ hist.start_resume = 0
        /\ hist.start_mode = "wb"
        /\ (dl.pc = "request" /\ hist.load_cleanup = "removed")
              => states[dl.dest].kind = "none"

C9_Witness ==
    /\ LoadedFromFile
    /\ hist.pre_state.file_size > hist.pre_file
    /\ hist.pre_state.url = dl.url
    /\ hist.pre_file > 0
    /\ dl.pc = "request"
    /\ states[dl.dest].kind = "none"
    /\ dl.mode = "wb"

\* C10: a saved state whose url differs from the url being fetched is not
\* used: the attempt starts at position 0 in truncate mode, sends no Range
\* header and truncates the destination; append mode is chosen only with a
\* loaded state of the same url and nonzero progress and an existing file.
C10_OtherUrlNeverResumed ==
    hist.attempts > 0 =>
        /\ (hist.pre_state.kind = "state" /\ hist.pre_state.url # dl.url) =>
              /\ hist.start_resume = 0
              /\ hist.start_mode = "wb"
              /\ ~dl.headers
              /\ dl.pc \in {"request", "open", "stream"} =>
                    (dl.resume_byte_pos = 0 /\ dl.mode = "wb")
              /\ dl.pc = "stream" => hist.file_at_open = 0
        /\ hist.start_mode = "ab" =>
              /\ hist.loaded.kind = "state"
              /\ hist.loaded.url = dl.url
              /\ hist.loaded.downloaded_bytes > 0
              /\ hist.pre_file # NoFile

C10_Witness ==
    /\ hist.attempts > 0
    /\ hist.pre_state.kind = "state"
    /\ hist.pre_state.url = OTHER_URL
    /\ hist.pre_state.file_size <= hist.pre_file
    /\ hist.pre_file > 0
    /\ dl.pc = "stream"
    /\ hist.file_at_open = 0

\* ---------------------------------------------------------------- C14..C17
\* A call of check_disk_space_requirements has returned.
BudgetReturned == budget.pc = "returned"

\* The scenario: 10 GiB to download, Parallel mode, 25 GiB free in the staging
\* area, 20 GiB free in the data area.
TenGiBScenario ==
    /\ BudgetReturned
    /\ budget.download_size = 10 * GiB
    /\ budget.is_parallel
    /\ budget.temp_statvfs = 25 * GiB
    /\ budget.data_statvfs = 20 * GiB

\* C14 as stated: in the 10 GiB scenario check_disk_space_requirements
\* returns True.
C14_TenGiBAllowed == TenGiBScenario => budget.result

\* C14, amended: in the 10 GiB scenario check_disk_space_requirements returns
\* False, because the staging area has to hold the download and its extracted
\* estimate (10 GiB + 16.3 GiB), which is more than its 25 GiB; the data area
\* alone would have been enough.
C14_TenGiBBlocked ==
    TenGiBScenario =>
        /\ ~budget.result
        /\ budget.temp_available < budget.download_size + budget.extracted_size
        /\ budget.data_available >= budget.extracted_size

C14_Witness == TenGiBScenario /\ budget.calls = 1

\* C15: with e the extracted estimate, Sequential mode allows exactly when
\* staging >= d + e, whatever the data area reports; Parallel mode allows
\* exactly when staging >= d + e and data >= e; nothing else (the logged
\* total d * 1.7 included) enters the decision.
C15_DecisionIsTheTwoGates ==
    BudgetReturned =>
        LET d == budget.download_size
            e == budget.extracted_size
        IN /\ ~budget.is_parallel =>
                /\ budget.result <=> (budget.temp_available >= d + e)
                /\ \A x \in budget.earlier :
                       x.temp_available = budget.temp_available
                           => x.result = budget.result
           /\ budget.is_parallel =>
                (budget.result <=> /\ budget.temp_available >= d + e
                                   /\ budget.data_available >= e)

C15_Witness ==
    /\ BudgetReturned
    /\ ~budget.is_parallel
    /\ budget.download_size > 0
    /\ budget.data_available < budget.extracted_size
    /\ budget.result
    /\ \E x \in budget.earlier : /\ x.temp_available = budget.temp_available
                                  /\ x.data_available > budget.data_available

\* C16: when os.statvfs raises, get_available_space yields 0, and
\* check_disk_space_requirements returns False for every download size it is
\* called with by the updates (download_size > 0): in both modes when the
\* staging area cannot be probed, and in Parallel mode also when the data
\* area cannot be probed.
C16_ProbeFailureBlocks ==
    /\ budget.pc \in {"data_available", "decide", "returned"}
         => (budget.temp_statvfs = StatError => budget.temp_available = 0)
    /\ budget.pc \in {"decide", "returned"}
         => (budget.data_statvfs = StatError => budget.data_available = 0)
    /\ (BudgetReturned /\ budget.download_size > 0) =>
         /\ budget.temp_statvfs = StatError => ~budget.result
         /\ (budget.is_parallel /\ budget.data_statvfs = StatError)
               => ~budget.result

C16_Witness ==
    /\ BudgetReturned
    /\ budget.download_size > 0
    /\ budget.temp_statvfs = StatError
    /\ budget.data_statvfs = StatError
    /\ budget.temp_available = 0
    /\ ~budget.result

\* C17 as stated: the extracted estimate is download_size * 1.63 exactly.
C17_EstimateExact ==
    BudgetReturned => 100 * budget.extracted_size = 163 * budget.download_size

\* C17, amended: the extracted estimate is int(download_size * 1.63), the
\* floating-point product truncated to an integer: it never exceeds
\* download_size * 1.63 and is less than 2 below it; and two calls with the
\* same download size, mode and free space return the same decision.
C17_EstimateTruncated ==
    BudgetReturned =>
        /\ 100 * budget.extracted_size <= 163 * budget.download_size
        /\ 163 * budget.download_size - 100 * budget.extracted_size < 200
        /\ \A x \in budget.earlier :
               (/\ x.temp_available = budget.temp_available
                /\ x.data_available = budget.data_available)
                   => x.result = budget.result

\* Both ways the estimate falls short: 300 * 1.63 rounds to the double below
\* 489, and a second call has read the same free space as the first.
C17_Witness ==
    /\ BudgetReturned
    /\ budget.download_size = 300
    /\ budget.extracted_size = 488
    /\ \E x \in budget.earlier : /\ x.temp_available = budget.temp_available
                                  /\ x.data_available = budget.data_available

\* ---------------------------------------------------------------- C11..C13
\* The call `name` has completed in this invocation: it returned (ok) or raised.
Completed(name, ok) ==
    \E i \in 1..Len(steps) : steps[i] = [step |-> name, ok |-> ok]

Called(name) == \E i \in 1..Len(steps) : steps[i].step = name

\* `first` returned before `second` completed.
Before(first, second) ==
    \E i, j \in 1..Len(steps) :
        /\ i < j
        /\ steps[i] = [step |-> first, ok |-> TRUE]
        /\ steps[j].step = second

\* The update ran to its end: clear_temp_dir returned and the process exited.
SuccessfulRun == pc = "exited" /\ Completed("clear_temp_dir", TRUE)

\* C11: in a successful run with checksum verification enabled the steps
\* occur in the order space check, archive download, checksum download,
\* checksum verification, extraction, publish, staging cleanup: the checksum
\* is downloaded and verified before the archive is extracted.
C11_VerifiedBeforeExtracted ==
    (SuccessfulRun /\ ~cfg.SKIP_MD5_CHECK) =>
        /\ Called("check_disk_space_requirements")
              => Before("check_disk_space_requirements", "download_index")
        /\ Before("download_index", "download_md5")
        /\ Before("download_md5", "verify_checksum")
        /\ Before("verify_checksum", "extract_index")
        /\ Before("extract_index", "move_index")
        /\ Before("move_index", "clear_temp_dir")

\* C12: in both variants the checksum download has completed when checksum
\* verification starts, extract_index when move_index starts, move_index when
\* clear_temp_dir starts; and a step that failed is the last one of the run,
\* which ends in failure.
C12_SequencePoints ==
    /\ (pc = "verify_checksum" \/ Called("verify_checksum"))
          => Completed("download_md5", TRUE)
    /\ Called("verify_checksum") => Before("download_md5", "verify_checksum")
    /\ (pc = "move_index" \/ Called("move_index"))
          => Completed("extract_index", TRUE)
    /\ Called("move_index") => Before("extract_index", "move_index")
    /\ (pc = "clear_temp_dir" \/ Called("clear_temp_dir"))
          => Completed("move_index", TRUE)
    /\ Called("clear_temp_dir") => Before("move_index", "clear_temp_dir")
    /\ \A i \in 1..Len(steps) :
          ~steps[i].ok => /\ i = Len(steps)
                          /\ pc = "exited"
                          /\ exit_code = EXIT_FAILURE
                          /\ dl = IdleDL

C12_Witness ==
    /\ SuccessfulRun
    /\ ~cfg.SKIP_MD5_CHECK
    /\ upd.variant = "parallel"
    /\ Before("download_md5", "verify_checksum")
    /\ Before("extract_index", "move_index")
    /\ Before("move_index", "clear_temp_dir")

\* C13: when the remote size is known and check_disk_space_requirements
\* returns False, the run ends right there in failure: download_file is not
\* called for the archive or the checksum, nothing is extracted or published.
C13_RejectedBeforeAnyDownload ==
    upd.space = "insufficient" =>
        /\ upd.file_size > 0
        /\ pc = "exited"
        /\ exit_code # 0
        /\ dl = IdleDL
        /\ hist = IdleHist
        /\ steps = << [step |-> "validate_config", ok |-> TRUE],
                      [step |-> "staging", ok |-> TRUE],
                      [step |-> "check_disk_space_requirements", ok |-> FALSE] >>

C13_Witness ==
    /\ upd.space = "insufficient"
    /\ upd.variant = "sequential"
    /\ Completed("check_disk_space_requirements", FALSE)
    /\ ~Called("download_index")

C19_StagingFailureIsFatal ==
    Completed("staging", FALSE) =>
        /\ pc = "exited"
        /\ exit_code = EXIT_FAILURE
        /\ steps = << [step |-> "validate_config", ok |-> TRUE],
                      [step |-> "staging", ok |-> FALSE] >>
        /\ upd.file_size = 0
        /\ upd.space = "unchecked"
        /\ dl = IdleDL

\* The staging directory was there, and removing it failed.
C19_Witness ==
    /\ Completed("staging", FALSE)
    /\ temp_dir
    /\ runs > 1
    /\ exit_code = EXIT_FAILURE

\* C20: once validate_config has returned, main runs parallel_update under
\* FORCE_UPDATE exactly when UPDATE_STRATEGY is PARALLEL and sequential_update
\* otherwise; without FORCE_UPDATE and without an index it runs
\* sequential_update whatever the strategy, or nothing (exit 0) when
\* INITIAL_DOWNLOAD is off; with an index it runs nothing.  Only main starts
\* an update, so at most one runs per invocation.
C20_MainChoosesTheUpdate ==
    /\ [][ (/\ pc = "main"
            /\ pc' \notin {"main", "killed"}
            /\ steps' = << [step |-> "validate_config", ok |-> TRUE] >>)
           => IF cfg.FORCE_UPDATE
              THEN /\ pc' = "staging"
                   /\ upd'.variant = IF cfg.UPDATE_STRATEGY = "PARALLEL"
                                     THEN "parallel" ELSE "sequential"
              ELSE IF ~index_present
                   THEN IF cfg.INITIAL_DOWNLOAD
                        THEN pc' = "staging" /\ upd'.variant = "sequential"
                        ELSE /\ pc' = "exited"
                             /\ exit_code' = 0
                             /\ upd'.variant = "none"
                   ELSE /\ pc' = "exited"
                        /\ exit_code' = 0
                        /\ upd'.variant = "none" ]_vars
    /\ [][ pc # "main" => upd'.variant \in {upd.variant, "none"} ]_vars
    /\ [](Cardinality({ i \in 1..Len(steps) : steps[i].step = "staging" }) <= 1)

C20_Witness ==
    /\ pc = "probe"
    /\ upd.caller = "initial"
    /\ upd.variant = "sequential"
    /\ cfg.UPDATE_STRATEGY = "PARALLEL"

\* ---------------------------------------------------------------- C21..C23
\* C21: whenever download_file returns True with a known total size T > 0,
\* the destination file is T bytes long, whatever the attempts and the
\* responses were: also when the server advertises range support and then
\* answers the Range request with the whole file.
C21_CompleteFileHasTotalSize ==
    (dl.pc = "returned" /\ dl.result = "True" /\ dl.total_size > 0)
        => files[dl.dest] = dl.total_size

\* The request of the running attempt carried a Range header.
RangeSent == dl.pc \in {"open", "stream"} /\ dl.headers

\* C22: in every attempt of a download_file call that sends a Range header,
\* the offset of the header is the size the destination has on disk, the
\* destination is opened in append mode and the file and the byte counter
\* stay equal; when the server answers 206 the bytes on disk and the bytes
\* still to come add up to the remote file (none skipped, none written
\* twice).  This holds also for the attempt after one that failed in
\* mid-stream.
C22_RangeStartsAtFileSize ==
    /\ (dl.pc = "open" /\ dl.headers) =>
          /\ dl.resume_byte_pos > 0
          /\ files[dl.dest] = dl.resume_byte_pos
          /\ dl.mode = "ab"
    /\ (dl.pc = "stream" /\ dl.headers) =>
          /\ dl.mode = "ab"
          /\ hist.file_at_open = dl.resume_byte_pos
          /\ files[dl.dest] = dl.downloaded
          /\ dl.downloaded = dl.resume_byte_pos + hist.written
          /\ dl.status = 206 =>
                files[dl.dest] + dl.body_left = RemoteSize(dl.url)

\* The second attempt, after a transport failure, resumes with a Range
\* request that the server answers with 206, and has written a chunk.
C22_Witness ==
    /\ dl.pc = "stream"
    /\ dl.headers
    /\ dl.status = 206
    /\ hist.attempts = 2
    /\ hist.outcomes = << "transport" >>
    /\ Len(dl.waits) = 1
    /\ hist.written > 0
    /\ files[dl.dest] = dl.resume_byte_pos + hist.written

\* C23: while an attempt streams, the byte counter never decreases; after
\* each chunk the count of the last checkpoint save issued is less than
\* save_interval behind it, and is what the state file holds when that save
\* succeeded; a save that fails leaves the transfer streaming; and when the
\* stream fails or ends short, one more save records the final count.
C23_CheckpointLagBounded ==
    /\ [](dl.pc = "stream" =>
            /\ dl.resume_byte_pos <= dl.last_save
            /\ dl.last_save <= dl.downloaded
            /\ dl.downloaded - dl.last_save < save_interval
            /\ hist.last_save_ok =>
                  /\ states[dl.dest].kind = "state"
                  /\ states[dl.dest].downloaded_bytes = dl.last_save)
    /\ []((/\ dl.pc \in {"loop", "returned"}
           /\ Len(hist.outcomes) > 0
           /\ Last(hist.outcomes) # "success"
           /\ hist.last_save_ok) =>
              /\ states[dl.dest].kind = "state"
              /\ states[dl.dest].downloaded_bytes = dl.downloaded)
    /\ [][ (dl.pc = "stream" /\ dl'.pc = "stream")
             => dl'.downloaded >= dl.downloaded ]_vars
    /\ [][ (/\ dl.pc = "stream"
            /\ dl'.last_save > dl.last_save
            /\ hist'.faults > hist.faults)
             => (dl'.pc = "stream" /\ dl'.downloaded > dl.downloaded) ]_vars

\* A checkpoint write has failed in this attempt and a later chunk has been
\* written all the same.
C23_Witness ==
    /\ dl.pc = "stream"
    /\ dl.last_save > dl.resume_byte_pos
    /\ ~hist.last_save_ok
    /\ dl.downloaded > dl.last_save

====
